---------------------------- MODULE Spec2Model ----------------------------
(***************************************************************************)
(* A model of the test execution core of cargo-nextest: the RunStats       *)
(* aggregation of nextest-runner/src/reporter/events.rs, and the           *)
(* dispatcher and per-unit state machine that feed it, and parse_env_file  *)
(* of nextest-runner/src/runner/script_helpers.rs.                         *)
(*                                                                         *)
(* Six specifications share the variables:                                 *)
(*   SpecFn     summarize_final / has_failures applied to arbitrary        *)
(*              (bounded) RunStats values;                                 *)
(*   SpecStats  arbitrary sequences of on_test_finished and                *)
(*              on_setup_script_finished calls from RunStats::default();   *)
(*   Spec       a whole run: setup scripts, admission, retries, timeouts,  *)
(*              leak detection, cancellation;                              *)
(*   SpecEnv    parse_env_file applied to env files of bounded size;       *)
(*   SpecInfo   a run with info requests, pause and continue;              *)
(*   FairSpec   Spec with the fairness of timers and of the dispatcher.    *)
(***************************************************************************)
EXTENDS Integers, Sequences, FiniteSets, TLC

VARIABLES
    stats,          \* the RunStats value
    fn_pc,          \* SpecFn: "idle" | "input" | "done"
    fn_out,         \* SpecFn: what the functions returned for stats
    prev_stats,     \* SpecStats: stats before the last call
    last_call,      \* SpecStats: the last call and its argument
    calls,          \* SpecStats: number of calls made
    phase,          \* Spec: "NotStarted" | "Setup" | "Tests" | "Finished" ("Idle" elsewhere)
    policy,         \* Spec: the RunPolicy of the run
    filter,         \* Spec: filter_match of every test
    cancel,         \* Spec: current CancelReason (0 = None)
    cancel_head,    \* Spec: queue head when the run was first cancelled
    next,           \* Spec: index of the queue head
    test,           \* Spec: per-test unit state, attempts and events
    script,         \* Spec: per-script unit state and events
    env,            \* SpecEnv: the env file, and what parse_env_file returned
    paused,         \* SpecInfo: the run is paused (RunPaused seen, RunContinued not yet)
    info            \* SpecInfo: the info request in progress and its events

fn_vars    == <<fn_pc, fn_out>>
call_vars  == <<prev_stats, last_call, calls>>
run_vars   == <<phase, policy, filter, cancel, cancel_head, next, test, script>>
env_vars   == <<env>>
ctl_vars   == <<paused, info>>
vars       == <<stats, fn_pc, fn_out, prev_stats, last_call, calls,
                phase, policy, filter, cancel, cancel_head, next, test, script, env,
                paused, info>>

---------------------------------------------------------------------------
(* Bounds *)

\* largest counter value of an input RunStats in SpecFn
MaxCount == 1
\* longest run_statuses argument in SpecStats
MaxStatuses == 2
\* number of calls in SpecStats
MaxCalls == 3

---------------------------------------------------------------------------
(* ExecutionResult and ExecuteStatus *)

ExecutionResult == {"Pass", "Leak", "Fail", "ExecFail", "Timeout"}

ExecuteStatus == [result : ExecutionResult, is_slow : BOOLEAN]

\* ExecutionStatuses::last_status
last_status(run_statuses) == run_statuses[Len(run_statuses)]

---------------------------------------------------------------------------
(* RunStats *)

RunStatsFields ==
    {"initial_run_count", "finished_count",
     "setup_scripts_initial_count", "setup_scripts_finished_count",
     "setup_scripts_passed", "setup_scripts_failed",
     "setup_scripts_exec_failed", "setup_scripts_timed_out",
     "passed", "passed_slow", "flaky", "failed", "failed_slow",
     "timed_out", "leaky", "exec_failed", "skipped"}

\* RunStats::default()
DefaultRunStats == [f \in RunStatsFields |-> 0]

\* failed_setup_script_count without the timed-out scripts
failed_setup_script_count_NoTimeout(s) ==
    s.setup_scripts_failed + s.setup_scripts_exec_failed

failed_setup_script_count(s) ==
    s.setup_scripts_failed + s.setup_scripts_exec_failed + s.setup_scripts_timed_out

failed_count(s) == s.failed + s.exec_failed + s.timed_out

has_failures_NoTimeout(s) ==
    \/ s.setup_scripts_failed + s.setup_scripts_exec_failed > 0
    \/ s.failed + s.exec_failed > 0

\* has_failures counting skipped tests as failures
has_failures_SkippedFails(s) ==
    failed_setup_script_count(s) > 0 \/ failed_count(s) > 0 \/ s.skipped > 0

has_failures(s) == failed_setup_script_count(s) > 0 \/ failed_count(s) > 0

saturating_sub(a, b) == IF a >= b THEN a - b ELSE 0

\* FinalRunStats, with RunStatsFailureKind flattened into the record:
\* step is "SetupScript", "Test" or "None"; the two counts are 0 unless
\* step = "Test".
FinalSimple(kind) ==
    [kind |-> kind, step |-> "None", initial_run_count |-> 0, not_run |-> 0]
FinalSetupScript(kind) ==
    [kind |-> kind, step |-> "SetupScript", initial_run_count |-> 0, not_run |-> 0]
FinalTest(kind, initial, not_run) ==
    [kind |-> kind, step |-> "Test", initial_run_count |-> initial, not_run |-> not_run]

summarize_final_TestsFirst(s) ==
    IF failed_count(s) > 0 THEN
        FinalTest("Failed", s.initial_run_count,
                  saturating_sub(s.initial_run_count, s.finished_count))
    ELSE IF failed_setup_script_count(s) > 0 THEN
        FinalSetupScript("Failed")
    ELSE IF s.setup_scripts_initial_count > s.setup_scripts_finished_count THEN
        FinalSetupScript("Cancelled")
    ELSE IF s.initial_run_count > s.finished_count THEN
        FinalTest("Cancelled", s.initial_run_count,
                  saturating_sub(s.initial_run_count, s.finished_count))
    ELSE IF s.finished_count = 0 THEN
        FinalSimple("NoTestsRun")
    ELSE
        FinalSimple("Success")

\* summarize_final without the finished_count == 0 case
summarize_final_EmptyIsSuccess(s) ==
    IF failed_setup_script_count(s) > 0 THEN
        FinalSetupScript("Failed")
    ELSE IF s.setup_scripts_initial_count > s.setup_scripts_finished_count THEN
        FinalSetupScript("Cancelled")
    ELSE IF failed_count(s) > 0 THEN
        FinalTest("Failed", s.initial_run_count,
                  saturating_sub(s.initial_run_count, s.finished_count))
    ELSE IF s.initial_run_count > s.finished_count THEN
        FinalTest("Cancelled", s.initial_run_count,
                  saturating_sub(s.initial_run_count, s.finished_count))
    ELSE
        FinalSimple("Success")

\* summarize_final with the unfinished-scripts check before the script-failure check
summarize_final_SetupCancelledFirst(s) ==
    IF s.setup_scripts_initial_count > s.setup_scripts_finished_count THEN
        FinalSetupScript("Cancelled")
    ELSE IF failed_setup_script_count(s) > 0 THEN
        FinalSetupScript("Failed")
    ELSE IF failed_count(s) > 0 THEN
        FinalTest("Failed", s.initial_run_count,
                  saturating_sub(s.initial_run_count, s.finished_count))
    ELSE IF s.initial_run_count > s.finished_count THEN
        FinalTest("Cancelled", s.initial_run_count,
                  saturating_sub(s.initial_run_count, s.finished_count))
    ELSE IF s.finished_count = 0 THEN
        FinalSimple("NoTestsRun")
    ELSE
        FinalSimple("Success")

\* summarize_final with the unfinished-tests check before the failure check
summarize_final_CancelledFirst(s) ==
    IF failed_setup_script_count(s) > 0 THEN
        FinalSetupScript("Failed")
    ELSE IF s.setup_scripts_initial_count > s.setup_scripts_finished_count THEN
        FinalSetupScript("Cancelled")
    ELSE IF s.initial_run_count > s.finished_count THEN
        FinalTest("Cancelled", s.initial_run_count,
                  saturating_sub(s.initial_run_count, s.finished_count))
    ELSE IF failed_count(s) > 0 THEN
        FinalTest("Failed", s.initial_run_count,
                  saturating_sub(s.initial_run_count, s.finished_count))
    ELSE IF s.finished_count = 0 THEN
        FinalSimple("NoTestsRun")
    ELSE
        FinalSimple("Success")

summarize_final(s) ==
    IF failed_setup_script_count(s) > 0 THEN
        FinalSetupScript("Failed")
    ELSE IF s.setup_scripts_initial_count > s.setup_scripts_finished_count THEN
        FinalSetupScript("Cancelled")
    ELSE IF failed_count(s) > 0 THEN
        FinalTest("Failed", s.initial_run_count,
                  saturating_sub(s.initial_run_count, s.finished_count))
    ELSE IF s.initial_run_count > s.finished_count THEN
        FinalTest("Cancelled", s.initial_run_count,
                  saturating_sub(s.initial_run_count, s.finished_count))
    ELSE IF s.finished_count = 0 THEN
        FinalSimple("NoTestsRun")
    ELSE
        FinalSimple("Success")

Inc(s, f) == [s EXCEPT ![f] = @ + 1]
IncIf(s, c, f) == IF c THEN Inc(s, f) ELSE s

on_setup_script_finished_ExecFailUncounted(s, result) ==
    CASE result \in {"Pass", "Leak"} ->
            Inc(Inc(s, "setup_scripts_finished_count"), "setup_scripts_passed")
      [] result = "Fail"     ->
            Inc(Inc(s, "setup_scripts_finished_count"), "setup_scripts_failed")
      [] result = "ExecFail" -> Inc(s, "setup_scripts_exec_failed")
      [] result = "Timeout"  ->
            Inc(Inc(s, "setup_scripts_finished_count"), "setup_scripts_timed_out")

\* on_setup_script_finished counting a leaky script as failed
on_setup_script_finished_LeakAsFailed(s, result) ==
    LET s1 == Inc(s, "setup_scripts_finished_count") IN
    CASE result = "Pass"               -> Inc(s1, "setup_scripts_passed")
      [] result \in {"Leak", "Fail"}   -> Inc(s1, "setup_scripts_failed")
      [] result = "ExecFail"           -> Inc(s1, "setup_scripts_exec_failed")
      [] result = "Timeout"            -> Inc(s1, "setup_scripts_timed_out")

\* on_setup_script_finished counting the script as a finished test too
on_setup_script_finished_BumpsFinishedCount(s, result) ==
    LET s1 == Inc(Inc(s, "setup_scripts_finished_count"), "finished_count") IN
    CASE result \in {"Pass", "Leak"} -> Inc(s1, "setup_scripts_passed")
      [] result = "Fail"             -> Inc(s1, "setup_scripts_failed")
      [] result = "ExecFail"         -> Inc(s1, "setup_scripts_exec_failed")
      [] result = "Timeout"          -> Inc(s1, "setup_scripts_timed_out")

on_setup_script_finished(s, result) ==
    LET s1 == Inc(s, "setup_scripts_finished_count") IN
    CASE result \in {"Pass", "Leak"} -> Inc(s1, "setup_scripts_passed")
      [] result = "Fail"             -> Inc(s1, "setup_scripts_failed")
      [] result = "ExecFail"         -> Inc(s1, "setup_scripts_exec_failed")
      [] result = "Timeout"          -> Inc(s1, "setup_scripts_timed_out")

PassedArm_FlakyOnFirstAttempt(s, last, len) ==
    IncIf(IncIf(Inc(s, "passed"), last.is_slow, "passed_slow"), len >= 1, "flaky")

\* the passing arms of on_test_finished (Pass, and Leak after leaky += 1)
PassedArm(s, last, len) ==
    IncIf(IncIf(Inc(s, "passed"), last.is_slow, "passed_slow"), len > 1, "flaky")

\* the arms of on_test_finished, after finished_count is updated
TestFinishedArms(s1, last, len) ==
    CASE last.result = "Pass"     -> PassedArm(s1, last, len)
      [] last.result = "Leak"     -> PassedArm(Inc(s1, "leaky"), last, len)
      [] last.result = "Fail"     -> IncIf(Inc(s1, "failed"), last.is_slow, "failed_slow")
      [] last.result = "Timeout"  -> Inc(s1, "timed_out")
      [] last.result = "ExecFail" -> Inc(s1, "exec_failed")

on_test_finished_FinishedPerAttempt(s, run_statuses) ==
    TestFinishedArms([s EXCEPT !.finished_count = @ + Len(run_statuses)],
                     last_status(run_statuses), Len(run_statuses))

on_test_finished_NoFinishedCount(s, run_statuses) ==
    TestFinishedArms(s, last_status(run_statuses), Len(run_statuses))

on_test_finished_FailedPerAttempt(s, run_statuses) ==
    LET s1   == Inc(s, "finished_count")
        last == last_status(run_statuses)
        len  == Len(run_statuses)
    IN  IF last.result = "Fail"
        THEN IncIf([s1 EXCEPT !.failed = @ + len], last.is_slow, "failed_slow")
        ELSE TestFinishedArms(s1, last, len)

on_test_finished_LeakNotPassed(s, run_statuses) ==
    LET s1   == Inc(s, "finished_count")
        last == last_status(run_statuses)
        len  == Len(run_statuses)
    IN  IF last.result = "Leak"
        THEN Inc(s1, "leaky")
        ELSE TestFinishedArms(s1, last, len)

on_test_finished_FirstStatus(s, run_statuses) ==
    TestFinishedArms(Inc(s, "finished_count"), run_statuses[1], Len(run_statuses))

\* on_test_finished with Timeout falling into the Fail arm
on_test_finished_TimeoutAsFail(s, run_statuses) ==
    TestFinishedArms(Inc(s, "finished_count"),
                     IF last_status(run_statuses).result = "Timeout"
                     THEN [last_status(run_statuses) EXCEPT !.result = "Fail"]
                     ELSE last_status(run_statuses),
                     Len(run_statuses))

on_test_finished(s, run_statuses) ==
    TestFinishedArms(Inc(s, "finished_count"), last_status(run_statuses), Len(run_statuses))

---------------------------------------------------------------------------
(* Values of the variables a specification does not use *)

NoOutput == [summary |-> FinalSimple("None"), has_failures |-> FALSE]
NoCall   == [op |-> "None", run_statuses |-> <<>>, result |-> "None"]

\* no info request made. total, indexes and missing are the fields of the
\* InfoStarted, InfoResponse and InfoFinished events of the last request;
\* started and finished count the InfoStarted and InfoFinished events
NoInfo   ==
    [pc |-> "idle", total |-> 0, pending |-> {}, indexes |-> <<>>,
     missing |-> 0, started |-> 0, finished |-> 0]

FnIdle   == fn_pc = "idle" /\ fn_out = NoOutput
CallIdle == prev_stats = DefaultRunStats /\ last_call = NoCall /\ calls = 0
RunIdle  ==
    /\ phase = "Idle"
    /\ policy = [fail_fast |-> FALSE, retries |-> 0, concurrency |-> 1]
    /\ filter = <<>>
    /\ cancel = 0
    /\ cancel_head = 0
    /\ next = 1
    /\ test = <<>>
    /\ script = <<>>
    /\ paused = FALSE
    /\ info = NoInfo
EnvIdle  == env = [pc |-> "idle"]

---------------------------------------------------------------------------
(* SpecFn: summarize_final and has_failures on arbitrary RunStats values *)

\* the fields summarize_final and has_failures read
DecidingFields ==
    {"initial_run_count", "finished_count",
     "setup_scripts_initial_count", "setup_scripts_finished_count",
     "setup_scripts_failed", "setup_scripts_exec_failed", "setup_scripts_timed_out",
     "failed", "timed_out", "exec_failed"}

\* every RunStats value whose deciding fields are in 0..MaxCount; the other
\* fields share one value of 0..MaxCount
FnInputs ==
    { [f \in RunStatsFields |-> IF f \in DecidingFields THEN d[f] ELSE o] :
        d \in [DecidingFields -> 0..MaxCount], o \in 0..MaxCount }

FnInit ==
    /\ stats \in FnInputs
    /\ fn_pc = "input"
    /\ fn_out = NoOutput
    /\ CallIdle
    /\ RunIdle
    /\ EnvIdle

FnApply ==
    /\ fn_pc = "input"
    /\ fn_out' = [summary |-> summarize_final(stats), has_failures |-> has_failures(stats)]
    /\ fn_pc' = "done"
    /\ UNCHANGED <<stats, call_vars, run_vars, env_vars, ctl_vars>>

FnNext == FnApply

SpecFn == FnInit /\ [][FnNext]_vars

---------------------------------------------------------------------------
(* SpecStats: sequences of on_test_finished / on_setup_script_finished     *)
(* calls starting from RunStats::default()                                 *)

\* every non-empty ExecutionStatuses of at most MaxStatuses attempts
RunStatusesArgs == UNION { [1..n -> ExecuteStatus] : n \in 1..MaxStatuses }

CallInit ==
    /\ stats = DefaultRunStats
    /\ CallIdle
    /\ FnIdle
    /\ RunIdle
    /\ EnvIdle

\* a caller passes a borrowed ExecutionStatuses to on_test_finished
CallOnTestFinished ==
    /\ last_call = NoCall
    /\ calls < MaxCalls
    /\ \E rs \in RunStatusesArgs :
        /\ stats' = on_test_finished(stats, rs)
        /\ last_call' = [op |-> "on_test_finished", run_statuses |-> rs, result |-> "None"]
    /\ prev_stats' = stats
    /\ calls' = calls + 1
    /\ UNCHANGED <<fn_vars, run_vars, env_vars, ctl_vars>>

\* a caller passes a borrowed SetupScriptExecuteStatus to on_setup_script_finished
CallOnSetupScriptFinished ==
    /\ last_call = NoCall
    /\ calls < MaxCalls
    /\ \E r \in ExecutionResult :
        /\ stats' = on_setup_script_finished(stats, r)
        /\ last_call' = [op |-> "on_setup_script_finished", run_statuses |-> <<>>, result |-> r]
    /\ prev_stats' = stats
    /\ calls' = calls + 1
    /\ UNCHANGED <<fn_vars, run_vars, env_vars, ctl_vars>>

\* the call returns: the borrowed argument is gone, RunStats stays
CallReturn ==
    /\ last_call # NoCall
    /\ last_call' = NoCall
    /\ prev_stats' = DefaultRunStats
    /\ UNCHANGED <<stats, calls, fn_vars, run_vars, env_vars, ctl_vars>>

CallNext == CallOnTestFinished \/ CallOnSetupScriptFinished \/ CallReturn

SpecStats == CallInit /\ [][CallNext]_vars

---------------------------------------------------------------------------
(* Claims about the RunStats functions *)

\* C1: summarize_final() returns the first matching case of the priority
\* list: (1) a failed, exec-failed or timed-out setup script gives
\* Failed(SetupScript); (2) else unfinished setup scripts give
\* Cancelled(SetupScript); (3) else a failed, exec-failed or timed-out test
\* gives Failed(Test{initial_run_count, not_run}); (4) else unfinished
\* tests give Cancelled(Test{initial_run_count, not_run}); (5) else
\* finished_count = 0 gives NoTestsRun; (6) else Success; not_run is
\* initial_run_count - finished_count, 0 when that would be negative.
C1_SummarizeFinalPriority ==
    fn_pc = "done" =>
      LET s  == stats
          r  == fn_out.summary
          c1 == s.setup_scripts_failed + s.setup_scripts_exec_failed
                  + s.setup_scripts_timed_out > 0
          c2 == s.setup_scripts_initial_count > s.setup_scripts_finished_count
          c3 == s.failed + s.exec_failed + s.timed_out > 0
          c4 == s.initial_run_count > s.finished_count
          c5 == s.finished_count = 0
          nr == IF s.initial_run_count - s.finished_count < 0 THEN 0
                ELSE s.initial_run_count - s.finished_count
          TestKind(k) == [kind |-> k, step |-> "Test",
                          initial_run_count |-> s.initial_run_count, not_run |-> nr]
          Plain(k, st) == [kind |-> k, step |-> st, initial_run_count |-> 0, not_run |-> 0]
      IN  /\ c1 => r = Plain("Failed", "SetupScript")
          /\ (~c1 /\ c2) => r = Plain("Cancelled", "SetupScript")
          /\ (~c1 /\ ~c2 /\ c3) => r = TestKind("Failed")
          /\ (~c1 /\ ~c2 /\ ~c3 /\ c4) => r = TestKind("Cancelled")
          /\ (~c1 /\ ~c2 /\ ~c3 /\ ~c4 /\ c5) => r = Plain("NoTestsRun", "None")
          /\ (~c1 /\ ~c2 /\ ~c3 /\ ~c4 /\ ~c5) => r = Plain("Success", "None")

\* summarize_final was applied to a value in which a setup script failed, a
\* test failed and tests are unfinished: the first case wins
C1_Witness ==
    /\ fn_pc = "done"
    /\ stats.setup_scripts_timed_out > 0
    /\ stats.failed > 0
    /\ stats.initial_run_count > stats.finished_count
    /\ fn_out.summary.kind = "Failed"
    /\ fn_out.summary.step = "SetupScript"

\* C3: on_test_finished classifies by the last attempt only: finished_count
\* + 1; last Pass: passed + 1, passed_slow + 1 if that attempt is slow,
\* flaky + 1 if an earlier attempt exists; last Leak: passed + 1 and
\* leaky + 1 with the same slow and flaky rules; last Fail: failed + 1 and
\* failed_slow + 1 if slow; last Timeout: timed_out + 1; last ExecFail:
\* exec_failed + 1; nothing else changes.
C3_Delta(rs, f) ==
    LET n    == Len(rs)
        res  == rs[n].result
        slow == rs[n].is_slow
        B(b) == IF b THEN 1 ELSE 0
    IN  CASE f = "finished_count" -> 1
          [] f = "passed"         -> B(res \in {"Pass", "Leak"})
          [] f = "passed_slow"    -> B(res \in {"Pass", "Leak"} /\ slow)
          [] f = "flaky"          -> B(res \in {"Pass", "Leak"} /\ n >= 2)
          [] f = "leaky"          -> B(res = "Leak")
          [] f = "failed"         -> B(res = "Fail")
          [] f = "failed_slow"    -> B(res = "Fail" /\ slow)
          [] f = "timed_out"      -> B(res = "Timeout")
          [] f = "exec_failed"    -> B(res = "ExecFail")
          [] OTHER                -> 0

C3_LastAttemptClassifies ==
    last_call.op = "on_test_finished" =>
      \A f \in RunStatsFields :
        stats[f] = prev_stats[f] + C3_Delta(last_call.run_statuses, f)

\* on_test_finished was applied to a test whose first attempt passed and
\* whose last attempt failed slowly
C3_Witness ==
    /\ last_call.op = "on_test_finished"
    /\ Len(last_call.run_statuses) = 2
    /\ last_call.run_statuses[1].result = "Pass"
    /\ last_call.run_statuses[2] = [result |-> "Fail", is_slow |-> TRUE]
    /\ stats.failed_slow = prev_stats.failed_slow + 1

\* C6: after any sequence of on_test_finished calls from the default
\* RunStats, flaky <= passed, passed_slow <= passed, leaky <= passed and
\* failed_slow <= failed.
C6_SubCounters ==
    /\ stats.flaky <= stats.passed
    /\ stats.passed_slow <= stats.passed
    /\ stats.leaky <= stats.passed
    /\ stats.failed_slow <= stats.failed

\* after several calls every sub-counter has reached its counter
C6_Witness ==
    /\ calls >= 2
    /\ stats.passed >= 1
    /\ stats.flaky = stats.passed
    /\ stats.passed_slow = stats.passed
    /\ stats.leaky = stats.passed
    /\ stats.failed >= 1
    /\ stats.failed_slow = stats.failed

\* the fields the claim lists: skipped, and the sub-counters of passed and failed
IgnoredFields ==
    {"skipped", "passed", "passed_slow", "flaky", "leaky", "failed_slow",
     "setup_scripts_passed"}

\* C22: skipped tests are not considered a failure: RunStats values that
\* differ only in skipped, or only in passed, passed_slow, flaky, leaky,
\* failed_slow or setup_scripts_passed (in one of these fields, or in all of
\* them at once), give the same summarize_final() and the same
\* has_failures() result.
C22_SkippedIrrelevant ==
    fn_pc = "done" =>
        /\ \A f \in IgnoredFields, v \in 0..(MaxCount + 1) :
              LET other == [stats EXCEPT ![f] = v]
              IN  /\ summarize_final(other) = fn_out.summary
                  /\ has_failures(other) = fn_out.has_failures
        /\ \A v \in 0..(MaxCount + 1) :
              LET other == [f \in RunStatsFields |->
                              IF f \in IgnoredFields THEN v ELSE stats[f]]
              IN  /\ summarize_final(other) = fn_out.summary
                  /\ has_failures(other) = fn_out.has_failures

\* a run with skipped tests and no failure was summarized as Success
C22_Witness ==
    /\ fn_pc = "done"
    /\ stats.skipped > 0
    /\ stats.passed > 0
    /\ fn_out.summary = FinalSimple("Success")
    /\ ~fn_out.has_failures

\* C32: for every RunStats value, reachable by a run or not,
\* summarize_final() = Failed(_) implies has_failures(), and has_failures()
\* implies that summarize_final() is Failed(_) or Cancelled(SetupScript);
\* with has_failures(), Cancelled(SetupScript) is returned exactly when no
\* setup script has failed, some test has failed and
\* setup_scripts_initial_count > setup_scripts_finished_count.
C32_FailuresAndFailed ==
    fn_pc = "done" =>
        LET setup_failed == stats.setup_scripts_failed + stats.setup_scripts_exec_failed
                                + stats.setup_scripts_timed_out > 0
            test_failed  == stats.failed + stats.exec_failed + stats.timed_out > 0
            unfinished   == stats.setup_scripts_initial_count
                                > stats.setup_scripts_finished_count
        IN  /\ fn_out.summary.kind = "Failed" => fn_out.has_failures
            /\ fn_out.has_failures =>
                  \/ fn_out.summary.kind = "Failed"
                  \/ fn_out.summary = FinalSetupScript("Cancelled")
            /\ (fn_out.has_failures /\ fn_out.summary = FinalSetupScript("Cancelled"))
                  <=> (~setup_failed /\ test_failed /\ unfinished)

\* a value no run produces: a test has timed out while a setup script is
\* still unfinished; has_failures() is true and the summary is Cancelled(SetupScript)
C32_Witness ==
    /\ fn_pc = "done"
    /\ stats.timed_out > 0
    /\ stats.setup_scripts_initial_count > stats.setup_scripts_finished_count
    /\ fn_out.has_failures
    /\ fn_out.summary = FinalSetupScript("Cancelled")

---------------------------------------------------------------------------
(* The run: RunPolicy, TestList, units *)

\* number of test instances in the TestList
NumTests == 2
\* number of setup scripts
NumScripts == 1
\* largest `retries` of a RunPolicy
MaxRetries == 1
\* slow_timeout_terminate_after: slow periods before a unit is terminated
TerminateAfter == 2
\* the largest concurrency (test-threads) a run is configured with
Concurrency == 2

Tests   == 1..NumTests
Scripts == 1..NumScripts

\* CancelReason, by severity (the derive(Ord) order of the enum); 0 is None
SetupScriptFailure == 1
TestFailure == 2
ReportError == 3
Signal == 4
\* Interrupt declared before Signal: it would rank with ReportError
Interrupt_BelowSignal == Signal - 1

Interrupt == 5

CancelReason == {SetupScriptFailure, TestFailure, ReportError, Signal, Interrupt}

\* FilterMatch and MismatchReason
MismatchReason == {"Ignored", "String", "Partition"}
Matches == [status |-> "Matches", reason |-> "None"]
Mismatch(reason) == [status |-> "Mismatch", reason |-> reason]
FilterMatch == {Matches} \cup {Mismatch(r) : r \in MismatchReason}

\* is_match with the sense its doc comment gives ("true if the filter doesn't match")
is_match_Inverted(f) == f.status # "Matches"

is_match(f) == f.status = "Matches"

\* ExecutionResult::is_success: Pass and Leak count as passing
is_success(result) == result \in {"Pass", "Leak"}

\* the configuration of a run: fail-fast, retries, and the number of units
\* that may run at the same time
RunPolicy == [fail_fast : BOOLEAN, retries : 0..MaxRetries, concurrency : 1..Concurrency]

\* A test before it reaches the queue head
QueuedTest ==
    [state |-> "Queued", slow |-> 0, will_terminate |-> 0,
     result |-> "None", reason |-> "None",
     run_statuses |-> <<>>,
     started |-> 0, retry_started |-> 0, will_retry |-> 0, finished |-> 0,
     skipped |-> 0]

\* A setup script before it is launched
PendingScript ==
    [state |-> "Pending", slow |-> 0, will_terminate |-> 0,
     result |-> "None", reason |-> "None",
     started |-> 0, finished |-> 0]

\* UnitTerminateReason: why a unit is being forcibly terminated
UnitTerminateReason == {"Timeout", "Signal", "Interrupt"}

\* UnitState variants of a unit that holds a slot
InFlight == {"Running", "Exiting", "Terminating", "Exited", "DelayBeforeNextAttempt"}

RunningTests   == {t \in Tests : test[t].state \in InFlight}
RunningScripts == {i \in Scripts : script[i].state \in InFlight}

\* attempts of test t started so far (TestStarted and TestRetryStarted)
Attempts(t) == test[t].started + test[t].retry_started

\* the ExecuteStatus of the attempt a unit in Exited has just completed
ExitedStatus(u) == [result |-> u.result, is_slow |-> u.slow > 0]

\* the cancel-reason cell: a request never lowers the reason
CancelUpdate(current, requested) ==
    IF requested > current THEN requested ELSE current

\* a cancellation request: update the cell, remember the queue head at the
\* first cancellation
RequestCancel(reason) ==
    /\ cancel' = CancelUpdate(cancel, reason)
    /\ cancel_head' = IF cancel = 0 THEN next ELSE cancel_head

---------------------------------------------------------------------------
(* Spec: a run *)

\* the RunStats a run is constructed with: the counts expected
InitialRunStats(filter_match) ==
    [DefaultRunStats EXCEPT
        !.initial_run_count = Cardinality({t \in Tests : is_match(filter_match[t])}),
        !.setup_scripts_initial_count = NumScripts]

\* the test lists of a run: every test matches the filter or is filtered out
TestLists == [Tests -> {Matches, Mismatch("String")}]

\* a run before RunStarted, with one of the given policies and test lists
RunConfigured(policies, test_lists) ==
    /\ phase = "NotStarted"
    /\ policy \in policies
    /\ filter \in test_lists
    /\ stats = InitialRunStats(filter)
    /\ paused = FALSE
    /\ info = NoInfo
    /\ cancel = 0
    /\ cancel_head = 0
    /\ next = 1
    /\ test = [t \in Tests |-> QueuedTest]
    /\ script = [i \in Scripts |-> PendingScript]
    /\ FnIdle
    /\ CallIdle
    /\ EnvIdle

RunInit == RunConfigured(RunPolicy, TestLists)

\* RunStarted: the first event of a run
RunStarted ==
    /\ phase = "NotStarted"
    /\ phase' = "Setup"
    /\ UNCHANGED <<stats, policy, filter, cancel, cancel_head, next, test, script, fn_vars, call_vars, env_vars, ctl_vars>>

----
(* UnitStateMachine: the transitions shared by tests and setup scripts *)

Unit(k, i) == IF k = "Test" THEN test[i] ELSE script[i]

SetUnit(k, i, u) ==
    IF k = "Test"
    THEN test' = [test EXCEPT ![i] = u] /\ UNCHANGED script
    ELSE script' = [script EXCEPT ![i] = u] /\ UNCHANGED test

UnitIds == ({"Test"} \X Tests) \cup ({"Script"} \X Scripts)

UnitFrame == UNCHANGED <<stats, phase, policy, filter, cancel, cancel_head, next, fn_vars, call_vars, env_vars, ctl_vars>>

\* Running, child exited with code: Exiting with the tentative result
\* (an exit status that could not be read is treated as a failure)
ChildExited(k, i) ==
    /\ Unit(k, i).state = "Running"
    /\ \E r \in {"Pass", "Fail"} :
         SetUnit(k, i, [Unit(k, i) EXCEPT !.state = "Exiting", !.result = r])
    /\ UnitFrame

\* Running, slow_timeout elapsed, terminate budget remains: TestSlow{will_terminate: false}
SlowTimeout(k, i) ==
    /\ ~paused
    /\ Unit(k, i).state = "Running"
    /\ Unit(k, i).slow + 1 < TerminateAfter
    /\ SetUnit(k, i, [Unit(k, i) EXCEPT !.slow = @ + 1])
    /\ UnitFrame

\* Running, slow_timeout elapsed, terminate budget exhausted: TestSlow{will_terminate: true}
SlowTerminate(k, i) ==
    /\ ~paused
    /\ Unit(k, i).state = "Running"
    /\ Unit(k, i).slow + 1 = TerminateAfter
    /\ SetUnit(k, i, [Unit(k, i) EXCEPT !.slow = @ + 1, !.will_terminate = @ + 1,
                                        !.state = "Terminating", !.reason = "Timeout"])
    /\ UnitFrame

\* CancelTerminate for every cancel reason, fail-fast and reporter errors included
CancelTerminate_AnyReason(k, i) ==
    /\ Unit(k, i).state = "Running"
    /\ cancel # 0
    /\ SetUnit(k, i, [Unit(k, i) EXCEPT !.state = "Terminating",
                        !.reason = IF cancel = Interrupt THEN "Interrupt" ELSE "Signal"])
    /\ UnitFrame

\* Running, cancel signal: Terminating{reason: Signal/Interrupt}
CancelTerminate(k, i) ==
    /\ Unit(k, i).state = "Running"
    /\ cancel \in {Signal, Interrupt}
    /\ SetUnit(k, i, [Unit(k, i) EXCEPT !.state = "Terminating",
                        !.reason = IF cancel = Interrupt THEN "Interrupt" ELSE "Signal"])
    /\ UnitFrame

\* Exiting, all I/O closed: Exited{result: tentative}
IoClosed(k, i) ==
    /\ Unit(k, i).state = "Exiting"
    /\ SetUnit(k, i, [Unit(k, i) EXCEPT !.state = "Exited"])
    /\ UnitFrame

\* Exiting, leak_timeout elapsed with I/O still open: Leak if tentative was Pass
LeakTimeout(k, i) ==
    /\ ~paused
    /\ Unit(k, i).state = "Exiting"
    /\ SetUnit(k, i, [Unit(k, i) EXCEPT !.state = "Exited",
                        !.result = IF @ = "Pass" THEN "Leak" ELSE @])
    /\ UnitFrame

\* the result of a unit that was terminated
TerminatedResult(u) == IF u.reason = "Timeout" THEN "Timeout" ELSE "Fail"

\* Terminating, child reaped before the kill deadline
TerminateReaped(k, i) ==
    /\ Unit(k, i).state = "Terminating"
    /\ SetUnit(k, i, [Unit(k, i) EXCEPT !.state = "Exited",
                                        !.result = TerminatedResult(Unit(k, i))])
    /\ UnitFrame

\* Terminating, kill deadline elapsed: forceful kill
TerminateKilled(k, i) ==
    /\ Unit(k, i).state = "Terminating"
    /\ SetUnit(k, i, [Unit(k, i) EXCEPT !.state = "Exited",
                                        !.result = TerminatedResult(Unit(k, i))])
    /\ UnitFrame

----
(* SetupScriptPhase: scripts run in declared order before any test *)

ScriptFrame == UNCHANGED <<policy, filter, next, test, fn_vars, call_vars, env_vars, ctl_vars>>

\* SetupScriptStarted: the next script is launched (or fails to spawn)
SetupScriptStarted(i) ==
    /\ phase = "Setup"
    /\ cancel = 0
    /\ script[i].state = "Pending"
    /\ \A j \in Scripts : j < i => script[j].state = "Finished"
    /\ Cardinality(RunningScripts) < policy.concurrency
    /\ \E spawned \in BOOLEAN :
         script' = [script EXCEPT ![i] =
            IF spawned
            THEN [@ EXCEPT !.state = "Running", !.started = @ + 1]
            ELSE [@ EXCEPT !.state = "Exited", !.result = "ExecFail", !.started = @ + 1]]
    /\ UNCHANGED <<stats, phase, cancel, cancel_head>>
    /\ ScriptFrame

\* SetupScriptFinished: RunStats is updated; a failure cancels under fail_fast
SetupScriptFinished(i) ==
    /\ script[i].state = "Exited"
    /\ script' = [script EXCEPT ![i] = [@ EXCEPT !.state = "Finished", !.slow = 0,
                                                  !.will_terminate = 0,
                                                  !.result = "None", !.finished = @ + 1]]
    /\ stats' = on_setup_script_finished(stats, script[i].result)
    /\ IF ~is_success(script[i].result) /\ policy.fail_fast
       THEN RequestCancel(SetupScriptFailure)
       ELSE UNCHANGED <<cancel, cancel_head>>
    /\ UNCHANGED phase
    /\ ScriptFrame

\* the setup phase is over: every script finished, or the run was cancelled
\* and no script is running
SetupPhaseDone ==
    /\ phase = "Setup"
    /\ RunningScripts = {}
    /\ cancel # 0 \/ \A i \in Scripts : script[i].state = "Finished"
    /\ phase' = "Tests"
    /\ UNCHANGED <<stats, cancel, cancel_head, script>>
    /\ ScriptFrame

----
(* Dispatcher *)

TestFrame == UNCHANGED <<phase, policy, filter, script, fn_vars, call_vars, env_vars, ctl_vars>>

\* TestStarted: the queue head is admitted into a free slot
TestStarted ==
    /\ phase = "Tests"
    /\ cancel = 0
    /\ next \in Tests
    /\ is_match(filter[next])
    /\ Cardinality(RunningTests) < policy.concurrency
    /\ \E spawned \in BOOLEAN :
         test' = [test EXCEPT ![next] =
            IF spawned
            THEN [@ EXCEPT !.state = "Running", !.started = @ + 1]
            ELSE [@ EXCEPT !.state = "Exited", !.result = "ExecFail", !.started = @ + 1]]
    /\ next' = next + 1
    /\ UNCHANGED <<stats, cancel, cancel_head>>
    /\ TestFrame

\* TestSkipped: the queue head does not match the filter; no slot is used.
\* After a cancellation only the test that was the queue head is still reported.
TestSkipped ==
    /\ phase = "Tests"
    /\ next \in Tests
    /\ ~is_match(filter[next])
    /\ cancel = 0 \/ cancel_head = next
    /\ test' = [test EXCEPT ![next] = [@ EXCEPT !.state = "Skipped", !.skipped = @ + 1]]
    /\ next' = next + 1
    /\ UNCHANGED <<stats, cancel, cancel_head>>
    /\ TestFrame

\* Exited with a failure, attempts remain, not cancelled:
\* TestAttemptFailedWillRetry, DelayBeforeNextAttempt
TestAttemptFailedWillRetry(t) ==
    /\ test[t].state = "Exited"
    /\ ~is_success(test[t].result)
    /\ Attempts(t) < 1 + policy.retries
    /\ cancel = 0
    /\ test' = [test EXCEPT ![t] =
                  [@ EXCEPT !.state = "DelayBeforeNextAttempt",
                            !.slow = 0, !.will_terminate = 0,
                            !.result = "None", !.reason = "None",
                            !.run_statuses = Append(@, ExitedStatus(test[t])),
                            !.will_retry = @ + 1]]
    /\ UNCHANGED <<stats, cancel, cancel_head, next>>
    /\ TestFrame

\* DelayBeforeNextAttempt, remaining == 0: TestRetryStarted, a new attempt
TestRetryStarted(t) ==
    /\ ~paused
    /\ test[t].state = "DelayBeforeNextAttempt"
    /\ cancel = 0
    /\ \E spawned \in BOOLEAN :
         test' = [test EXCEPT ![t] =
            IF spawned
            THEN [@ EXCEPT !.state = "Running", !.retry_started = @ + 1]
            ELSE [@ EXCEPT !.state = "Exited", !.result = "ExecFail",
                           !.retry_started = @ + 1]]
    /\ UNCHANGED <<stats, cancel, cancel_head, next>>
    /\ TestFrame

\* what the dispatcher does with a TestFinished carrying run_statuses:
\* RunStats is updated, and a non-pass result cancels under fail_fast
OnTestFinishedEvent(run_statuses) ==
    /\ stats' = on_test_finished(stats, run_statuses)
    /\ IF ~is_success(last_status(run_statuses).result) /\ policy.fail_fast
       THEN RequestCancel(TestFailure)
       ELSE UNCHANGED <<cancel, cancel_head>>

\* Exited, and the attempt is the last one: TestFinished
TestFinished(t) ==
    /\ test[t].state = "Exited"
    /\ ~(~is_success(test[t].result) /\ Attempts(t) < 1 + policy.retries /\ cancel = 0)
    /\ LET statuses == Append(test[t].run_statuses, ExitedStatus(test[t])) IN
         /\ test' = [test EXCEPT ![t] =
                       [@ EXCEPT !.state = "Finished", !.slow = 0, !.will_terminate = 0,
                                 !.result = "None",
                                 !.run_statuses = statuses, !.finished = @ + 1]]
         /\ OnTestFinishedEvent(statuses)
    /\ UNCHANGED next
    /\ TestFrame

\* DelayBeforeNextAttempt, cancellation: TestFinished with the last completed attempt
DelayCancelled(t) ==
    /\ test[t].state = "DelayBeforeNextAttempt"
    /\ cancel # 0
    /\ test' = [test EXCEPT ![t] = [@ EXCEPT !.state = "Finished", !.finished = @ + 1]]
    /\ OnTestFinishedEvent(test[t].run_statuses)
    /\ UNCHANGED next
    /\ TestFrame

\* a signal, an interrupt or a reporter error asks for cancellation
CancelRequested(reason) ==
    /\ phase \in {"Setup", "Tests"}
    /\ CancelUpdate(cancel, reason) # cancel
    /\ RequestCancel(reason)
    /\ UNCHANGED <<stats, phase, policy, filter, next, test, script, fn_vars, call_vars, env_vars, ctl_vars>>

\* RunFinished without waiting for the units in flight
RunFinished_Early ==
    /\ phase = "Tests"
    /\ cancel # 0 \/ next > NumTests
    /\ phase' = "Finished"
    /\ UNCHANGED <<stats, policy, filter, cancel, cancel_head, next, test, script,
                   fn_vars, call_vars, env_vars, ctl_vars>>

\* RunFinished: nothing is running and nothing more will be admitted
RunFinished ==
    /\ phase = "Tests"
    /\ RunningTests = {}
    /\ cancel # 0 \/ next > NumTests
    /\ phase' = "Finished"
    /\ UNCHANGED <<stats, policy, filter, cancel, cancel_head, next, test, script,
                   fn_vars, call_vars, env_vars, ctl_vars>>

Next ==
    \/ RunStarted
    \/ \E i \in Scripts : SetupScriptStarted(i)
    \/ \E i \in Scripts : SetupScriptFinished(i)
    \/ SetupPhaseDone
    \/ TestStarted
    \/ TestSkipped
    \/ \E id \in UnitIds : ChildExited(id[1], id[2])
    \/ \E id \in UnitIds : SlowTimeout(id[1], id[2])
    \/ \E id \in UnitIds : SlowTerminate(id[1], id[2])
    \/ \E id \in UnitIds : CancelTerminate(id[1], id[2])
    \/ \E id \in UnitIds : IoClosed(id[1], id[2])
    \/ \E id \in UnitIds : LeakTimeout(id[1], id[2])
    \/ \E id \in UnitIds : TerminateReaped(id[1], id[2])
    \/ \E id \in UnitIds : TerminateKilled(id[1], id[2])
    \/ \E t \in Tests : TestAttemptFailedWillRetry(t)
    \/ \E t \in Tests : TestRetryStarted(t)
    \/ \E t \in Tests : TestFinished(t)
    \/ \E t \in Tests : DelayCancelled(t)
    \/ \E reason \in {ReportError, Signal, Interrupt} : CancelRequested(reason)
    \/ RunFinished

Spec == RunInit /\ [][Next]_vars

\* the runs of SpecInfo and FairSpec: either two slots and no retries with both tests
\* matching the filter, or one slot and retries with the second test
\* filtered out; with and without fail-fast
SmallRun(p, l) ==
    \/ p.retries = 0 /\ p.concurrency = Concurrency /\ \A t \in Tests : l[t] = Matches
    \/ p.retries = MaxRetries /\ p.concurrency = 1
          /\ \A t \in Tests : (l[t] = Matches) <=> (t = 1)

---------------------------------------------------------------------------
(* SpecInfo: a run with info requests, pause and continue *)

\* info requests made during a run
MaxInfoRequests == 1

InfoFrame == UNCHANGED <<stats, run_vars, fn_vars, call_vars, env_vars>>

\* the units running now: the ones an info request is sent to
RunningUnits == {id \in UnitIds : Unit(id[1], id[2]).state \in InFlight}

\* an info request arrives: the running units are snapshotted and
\* InfoStarted{total} is emitted
InfoStarted ==
    /\ phase \in {"Setup", "Tests"}
    /\ info.pc = "idle"
    /\ info.started < MaxInfoRequests
    /\ info' = [info EXCEPT !.pc = "collecting",
                            !.total = Cardinality(RunningUnits),
                            !.pending = RunningUnits,
                            !.indexes = <<>>,
                            !.missing = 0,
                            !.started = @ + 1]
    /\ UNCHANGED paused
    /\ InfoFrame

\* a snapshotted unit that is still running answers: InfoResponse{index, total}
InfoResponse(id) ==
    /\ info.pc = "collecting"
    /\ id \in info.pending
    /\ id \in RunningUnits
    /\ info' = [info EXCEPT !.pending = @ \ {id},
                            !.indexes = Append(@, Len(@))]
    /\ UNCHANGED paused
    /\ InfoFrame

\* InfoFinished reporting that no response is missing
InfoFinished_NoneMissing ==
    /\ info.pc = "collecting"
    /\ info.pending \cap RunningUnits = {}
    /\ info' = [info EXCEPT !.pc = "idle",
                            !.pending = {},
                            !.missing = 0,
                            !.finished = @ + 1]
    /\ UNCHANGED paused
    /\ InfoFrame

\* every unit has answered or disappeared: InfoFinished{missing}
InfoFinished ==
    /\ info.pc = "collecting"
    /\ info.pending \cap RunningUnits = {}
    /\ info' = [info EXCEPT !.pc = "idle",
                            !.pending = {},
                            !.missing = Cardinality(info.pending),
                            !.finished = @ + 1]
    /\ UNCHANGED paused
    /\ InfoFrame

\* Stop (SIGTSTP): RunPaused; the slow, leak and retry timers stop
RunPaused ==
    /\ phase \in {"Setup", "Tests"}
    /\ ~paused
    /\ paused' = TRUE
    /\ UNCHANGED info
    /\ InfoFrame

\* Continue (SIGCONT): RunContinued; the timers run again
RunContinued ==
    /\ phase \in {"Setup", "Tests"}
    /\ paused
    /\ paused' = FALSE
    /\ UNCHANGED info
    /\ InfoFrame

InfoInit == RunConfigured(RunPolicy, TestLists) /\ SmallRun(policy, filter)

InfoNext ==
    \/ Next
    \/ InfoStarted
    \/ \E id \in UnitIds : InfoResponse(id)
    \/ InfoFinished
    \/ RunPaused
    \/ RunContinued

SpecInfo == InfoInit /\ [][InfoNext]_vars

---------------------------------------------------------------------------
(* FairSpec: a run under fair scheduling *)

\* what the runner does for a unit without waiting for the child: its
\* timers fire (slow timeout, leak timeout, kill deadline, retry delay) and
\* the dispatcher handles what the unit reports. That the child exits, is
\* reaped or closes its I/O is not assumed.
UnitStep(k, i) ==
    \/ SlowTimeout(k, i)
    \/ SlowTerminate(k, i)
    \/ CancelTerminate(k, i)
    \/ LeakTimeout(k, i)
    \/ TerminateKilled(k, i)
    \/ k = "Script" /\ SetupScriptFinished(i)
    \/ k = "Test" /\ TestAttemptFailedWillRetry(i)
    \/ k = "Test" /\ TestRetryStarted(i)
    \/ k = "Test" /\ TestFinished(i)
    \/ k = "Test" /\ DelayCancelled(i)

\* what the dispatcher does on its own: start the run, launch the next
\* script, end the setup phase, admit or skip the queue head, end the run
DispatcherStep ==
    \/ RunStarted
    \/ \E i \in Scripts : SetupScriptStarted(i)
    \/ SetupPhaseDone
    \/ TestStarted
    \/ TestSkipped
    \/ RunFinished

Fairness ==
    /\ WF_vars(DispatcherStep)
    /\ \A id \in UnitIds : WF_vars(UnitStep(id[1], id[2]))

FairInit == RunConfigured(RunPolicy, TestLists) /\ SmallRun(policy, filter)

FairSpec == FairInit /\ [][Next]_vars /\ Fairness

---------------------------------------------------------------------------
(* Claims about a run *)

\* C2: in every RunStats value a run produces, has_failures() is true if
\* and only if summarize_final() is Failed(_).
C2_HasFailuresIffFailed ==
    has_failures(stats) <=> (summarize_final(stats).kind = "Failed")

\* the run has ended with a timed-out test and nothing else failed
C2_Witness ==
    /\ phase = "Finished"
    /\ stats.timed_out > 0
    /\ stats.failed = 0 /\ stats.exec_failed = 0
    /\ failed_setup_script_count(stats) = 0
    /\ summarize_final(stats).kind = "Failed"

\* C4: in every reachable state of a run, finished_count <= initial_run_count.
C4_FinishedAtMostInitial ==
    stats.finished_count <= stats.initial_run_count

\* every scheduled test has finished, one of them after a retry and one of
\* them during a cancelled run
C4_Witness ==
    /\ stats.initial_run_count = NumTests
    /\ stats.finished_count = stats.initial_run_count
    /\ \E t \in Tests : test[t].will_retry > 0
    /\ cancel # 0

\* C5: in every reachable state of a run, passed + failed + timed_out +
\* exec_failed <= finished_count, and a TestSkipped changes none of these
\* five counters.
C5_OutcomesAtMostFinished ==
    /\ [](stats.passed + stats.failed + stats.timed_out + stats.exec_failed
            <= stats.finished_count)
    /\ [][(\E t \in Tests : test'[t].skipped > test[t].skipped) =>
            \A f \in {"passed", "failed", "timed_out", "exec_failed", "finished_count"} :
                stats'[f] = stats[f]]_vars

\* a test was skipped, another finished, and the four outcome counters add
\* up to finished_count
C5_Witness ==
    /\ \E t \in Tests : test[t].skipped > 0
    /\ stats.finished_count >= 1
    /\ stats.passed + stats.failed + stats.timed_out + stats.exec_failed
         = stats.finished_count

\* an attempt sequence with a failed attempt followed by a passing attempt
FailedThenPassed(rs) ==
    \E i, j \in DOMAIN rs : i < j /\ ~is_success(rs[i].result) /\ is_success(rs[j].result)

\* C7: whenever flaky > 0 there is a test whose attempt sequence contains a
\* failed attempt followed by a passing attempt: a test the code counts as
\* flaky (more than one attempt recorded, last attempt Pass or Leak) has an
\* earlier attempt that really failed.
C7_FlakyHadFailure ==
    /\ stats.flaky > 0 => \E t \in Tests : FailedThenPassed(test[t].run_statuses)
    /\ \A t \in Tests :
         (/\ test[t].finished > 0
          /\ Len(test[t].run_statuses) > 1
          /\ last_status(test[t].run_statuses).result \in {"Pass", "Leak"})
         => FailedThenPassed(test[t].run_statuses)

\* a test was counted flaky
C7_Witness ==
    /\ stats.flaky > 0
    /\ \E t \in Tests : test[t].finished > 0 /\ Len(test[t].run_statuses) > 1

\* C8: a test has at most 1 + retries attempts; a test that fails on every
\* attempt, in a run not cancelled before it finishes, has exactly
\* retries + 1 attempts started, retries TestAttemptFailedWillRetry events,
\* and one TestFinished, which adds 1 to failed.
C8_RetriesExhausted ==
    /\ [](\A t \in Tests : Attempts(t) <= 1 + policy.retries)
    /\ [][\A t \in Tests :
            (/\ test'[t].finished > test[t].finished
             /\ cancel = 0
             /\ \A i \in DOMAIN test'[t].run_statuses :
                    test'[t].run_statuses[i].result = "Fail")
            => /\ Attempts(t) = policy.retries + 1
               /\ Len(test'[t].run_statuses) = policy.retries + 1
               /\ test[t].will_retry = policy.retries
               /\ test'[t].finished = 1
               /\ stats'.failed = stats.failed + 1]_vars

\* with retries >= 1, a test failed on every attempt and finished in a run
\* that is not cancelled
C8_Witness ==
    /\ policy.retries >= 1
    /\ cancel = 0
    /\ \E t \in Tests :
         /\ test[t].finished = 1
         /\ Len(test[t].run_statuses) = policy.retries + 1
         /\ \A i \in DOMAIN test[t].run_statuses : test[t].run_statuses[i].result = "Fail"
         /\ test[t].will_retry = policy.retries
    /\ stats.failed >= 1

\* C9: TestFinished is emitted at most once for every test, so
\* on_test_finished is applied at most once per test: finished_count is
\* the number of tests that have finished.
C9_FinishedAtMostOnce ==
    /\ \A t \in Tests : test[t].finished <= 1
    /\ stats.finished_count = Cardinality({t \in Tests : test[t].finished > 0})

\* a test finished out of its retry delay because the run was cancelled,
\* and another test finished after being terminated by a signal
C9_Witness ==
    /\ phase = "Finished"
    /\ cancel \in {Signal, Interrupt}
    /\ \E t \in Tests :
         /\ test[t].finished = 1
         /\ test[t].will_retry = 1
         /\ Len(test[t].run_statuses) = 1
    /\ \E t \in Tests :
         /\ test[t].finished = 1
         /\ test[t].will_retry = 0
         /\ last_status(test[t].run_statuses).result = "Fail"

---------------------------------------------------------------------------
(* Claims about admission, cancellation and the unit state machine *)

\* C11: in every reachable state the number of running units (tests plus
\* setup scripts) is at most the configured concurrency, and a test whose
\* filter result is Mismatch is reported as TestSkipped without ever
\* occupying a slot: it is never started and never in a running state.
C11_ConcurrencyBound ==
    /\ Cardinality(RunningTests) + Cardinality(RunningScripts) <= policy.concurrency
    /\ \A t \in Tests :
         filter[t] \in FilterMatch \ {Matches} =>
            /\ test[t].state \in {"Queued", "Skipped"}
            /\ Attempts(t) = 0
    /\ \A t \in Tests :
         test[t].skipped > 0 =>
            /\ filter[t] \in FilterMatch \ {Matches}
            /\ test[t].state = "Skipped"

\* fewer slots than tests: a test holds the last free slot while the next
\* matching test waits at the queue head
C11_Witness ==
    /\ policy.concurrency < NumTests
    /\ Cardinality(RunningTests) = policy.concurrency
    /\ next \in Tests /\ filter[next] = Matches /\ cancel = 0
    /\ phase = "Tests"

\* the tests that were started
StartedTests == {t \in Tests : test[t].started > 0}

\* C12: with fail_fast, once a TestFinished carries a non-pass result the
\* cancel reason becomes TestFailure (unless a higher reason is already
\* set); after a cancellation no queued test is started; with a reason of
\* at most ReportError no running test is moved to Terminating by the
\* cancellation, and when the run has finished every started test has
\* emitted TestFinished and is counted in finished_count.
C12_FailFast ==
    /\ [][\A t \in Tests :
            (/\ test'[t].finished > test[t].finished
             /\ policy.fail_fast
             /\ ~is_success(last_status(test'[t].run_statuses).result))
            => cancel' = (IF cancel > TestFailure THEN cancel ELSE TestFailure)]_vars
    /\ [][cancel # 0 => \A t \in Tests : test'[t].started = test[t].started]_vars
    /\ [][\A t \in Tests :
            (/\ cancel' \in {TestFailure, ReportError}
             /\ test[t].state = "Running"
             /\ test'[t].state = "Terminating")
            => test'[t].reason = "Timeout"]_vars
    /\ [](phase = "Finished" =>
            /\ \A t \in StartedTests : test[t].state = "Finished" /\ test[t].finished = 1
            /\ stats.finished_count = Cardinality(StartedTests))

\* fail_fast: a test failed and set TestFailure; another test, running at
\* that moment, has gone on to exit with a passing result
C12_Witness ==
    /\ policy.fail_fast
    /\ cancel = TestFailure
    /\ stats.failed = 1
    /\ stats.finished_count = 1
    /\ \E t \in Tests : test[t].state = "Exiting" /\ test[t].result = "Pass"

\* C13: the cancel reason is monotonic over SetupScriptFailure <
\* TestFailure < ReportError < Signal < Interrupt: once set it is never
\* cleared and never replaced by a lower reason; a request with a higher
\* reason is accepted and supersedes it, a request with a lower or equal
\* reason leaves it unchanged. So a unit terminated for an Interrupt is
\* evidence that the reason is Interrupt for the rest of the run, whatever
\* arrives later, and one terminated for a Signal that it is at least Signal.
C13_CancelMonotonic ==
    /\ [](cancel \in {0} \cup CancelReason)
    /\ [][cancel' >= cancel]_vars
    /\ [](phase \in {"Setup", "Tests"} =>
            \A r \in {ReportError, Signal, Interrupt} :
                r > cancel => ENABLED (CancelRequested(r) /\ cancel' = r))
    /\ [][\A t \in Tests :
            (test'[t].finished > test[t].finished /\ cancel >= TestFailure)
            => cancel' = cancel]_vars
    /\ [](\A id \in UnitIds :
            /\ Unit(id[1], id[2]).reason = "Interrupt" => cancel = Interrupt
            /\ Unit(id[1], id[2]).reason = "Signal" => cancel \in {Signal, Interrupt})

\* fail-fast and interrupt together: one test failed by itself, the other
\* was terminated for the interrupt, and its failure, which asked for
\* TestFailure, left Interrupt in place
C13_Witness ==
    /\ policy.fail_fast
    /\ cancel = Interrupt
    /\ cancel_head > NumTests
    /\ stats.failed = NumTests
    /\ \E t \in Tests : test[t].finished = 1 /\ test[t].reason = "None"
    /\ \E t \in Tests : test[t].finished = 1 /\ test[t].reason = "Interrupt"

\* the tests that were terminated for an interrupt
InterruptedTests == {t \in Tests : test[t].reason = "Interrupt"}

\* C14 as stated: when an interrupt is delivered while tests are running
\* and terminates them, summarize_final() on the final RunStats returns
\* Cancelled(Test{.., not_run >= 1}).
C14_Original ==
    (phase = "Finished" /\ InterruptedTests # {}) =>
        /\ summarize_final(stats).kind = "Cancelled"
        /\ summarize_final(stats).step = "Test"
        /\ summarize_final(stats).not_run >= 1

\* C14, amended: a test the interrupt terminates goes Running ->
\* Terminating{reason: Interrupt} -> Exited{Fail}, with the cancel reason
\* Interrupt from then on; its TestFinished adds 1 to failed, so
\* summarize_final() on the final RunStats returns Failed(_), never
\* Cancelled(Test): Failed(Test{.., not_run}) with not_run =
\* initial_run_count - finished_count (which may be 0) unless a setup
\* script had failed.
C14_InterruptedRunFails ==
    /\ [][\A t \in Tests :
            /\ (test'[t].reason = "Interrupt" /\ test[t].reason # "Interrupt")
               => /\ test[t].state = "Running" /\ test'[t].state = "Terminating"
                  /\ cancel = Interrupt
            /\ (test[t].state = "Terminating" /\ test[t].reason = "Interrupt"
                    /\ test'[t] # test[t])
               => test'[t].state = "Exited" /\ test'[t].result = "Fail"
            /\ (test[t].reason = "Interrupt" /\ test'[t].finished > test[t].finished)
               => stats'.failed = stats.failed + 1]_vars
    /\ [](InterruptedTests # {} => cancel = Interrupt)
    /\ []((phase = "Finished" /\ InterruptedTests # {}) =>
            /\ stats.failed >= Cardinality(InterruptedTests)
            /\ summarize_final(stats).kind = "Failed"
            /\ failed_setup_script_count(stats) = 0 =>
                  summarize_final(stats) =
                     FinalTest("Failed", stats.initial_run_count,
                               stats.initial_run_count - stats.finished_count))

\* a long test was interrupted and terminated while another test was still
\* queued; the run has finished with that test never run
C14_Witness ==
    /\ phase = "Finished"
    /\ cancel = Interrupt
    /\ InterruptedTests # {}
    /\ \E t \in Tests : filter[t] = Matches /\ test[t].state = "Queued"
    /\ summarize_final(stats) = FinalTest("Failed", NumTests, 1)

\* C15: a Running unit is moved to Terminating only when its own timeout
\* budget is exhausted (reason Timeout) or the cancel reason is Signal or
\* Interrupt (reason Signal, Interrupt), and in each of these situations
\* that is the transition the unit takes when it next wakes up; with
\* SetupScriptFailure, TestFailure or ReportError it is not terminated for
\* the cancellation. Every unit in or past Terminating carries the
\* UnitTerminateReason of its cause.
C15_TerminateCause ==
    /\ [][\A id \in UnitIds :
            LET u == Unit(id[1], id[2])
                v == Unit(id[1], id[2])'
            IN  (u.state # "Terminating" /\ v.state = "Terminating") =>
                  /\ u.state = "Running"
                  /\ v.reason \in UnitTerminateReason
                  /\ v.reason = "Timeout" =>
                        v.slow = TerminateAfter /\ v.will_terminate = 1
                  /\ v.reason = "Signal" => cancel = Signal
                  /\ v.reason = "Interrupt" => cancel = Interrupt]_vars
    /\ [](\A id \in UnitIds :
            LET u == Unit(id[1], id[2])
            IN  /\ u.state = "Terminating" => u.reason \in UnitTerminateReason
                /\ u.reason # "None" =>
                      /\ u.reason \in UnitTerminateReason
                      /\ u.state \in {"Terminating", "Exited", "Finished"}
                /\ (u.state = "Running" /\ cancel \in {Signal, Interrupt}) =>
                      ENABLED (CancelTerminate(id[1], id[2]) /\
                               Unit(id[1], id[2])'.state = "Terminating")
                /\ (u.state = "Running" /\ u.slow = TerminateAfter - 1) =>
                      ENABLED (SlowTerminate(id[1], id[2]) /\
                               Unit(id[1], id[2])'.reason = "Timeout"))

\* under a Signal cancellation one test is being terminated for the signal
\* and another for its own timeout
C15_Witness ==
    /\ cancel = Signal
    /\ \E t \in Tests : test[t].state = "Terminating" /\ test[t].reason = "Signal"
    /\ \E t \in Tests : test[t].state = "Terminating" /\ test[t].reason = "Timeout"

\* C16: with a termination budget of N = TerminateAfter slow periods, an
\* attempt that keeps running emits exactly N TestSlow events, the first
\* N-1 with will_terminate = false (the unit stays Running) and the last
\* with will_terminate = true (the unit is then Terminating{Timeout} and
\* ends Exited{Timeout}); a TestFinished whose last attempt is that one
\* adds 1 to timed_out and leaves failed and passed unchanged.
C16_SlowTermination ==
    /\ [][\A t \in Tests :
            test'[t].slow > test[t].slow =>
                /\ test[t].state = "Running"
                /\ test'[t].slow = test[t].slow + 1
                /\ IF test'[t].slow = TerminateAfter
                   THEN /\ test'[t].will_terminate = test[t].will_terminate + 1
                        /\ test'[t].state = "Terminating"
                        /\ test'[t].reason = "Timeout"
                   ELSE /\ test'[t].will_terminate = test[t].will_terminate
                        /\ test'[t].state = "Running"]_vars
    /\ [](\A t \in Tests :
            /\ test[t].state = "Running" =>
                  test[t].slow < TerminateAfter /\ test[t].will_terminate = 0
            /\ (test[t].will_terminate > 0 \/ (test[t].state = "Exited" /\ test[t].result = "Timeout")) =>
                  /\ test[t].slow = TerminateAfter
                  /\ test[t].will_terminate = 1
                  /\ test[t].reason = "Timeout"
                  /\ \/ test[t].state = "Terminating"
                     \/ test[t].state = "Exited" /\ test[t].result = "Timeout")
    /\ [][\A t \in Tests :
            (/\ test'[t].finished > test[t].finished
             /\ last_status(test'[t].run_statuses).result = "Timeout")
            => /\ last_status(test'[t].run_statuses).is_slow
               /\ stats'.timed_out = stats.timed_out + 1
               /\ stats'.failed = stats.failed
               /\ stats'.passed = stats.passed]_vars

\* a test ran through its whole budget, was terminated, and has finished
\* as timed out
C16_Witness ==
    /\ TerminateAfter >= 2
    /\ stats.timed_out = 1
    /\ stats.failed = 0
    /\ \E t \in Tests :
         /\ test[t].finished = 1
         /\ test[t].reason = "Timeout"
         /\ last_status(test[t].run_statuses) = [result |-> "Timeout", is_slow |-> TRUE]

\* C17: a unit whose process has exited leaves Exiting for Exited only;
\* when leak_timeout elapses with I/O still open the result is Leak if the
\* tentative result was Pass and the tentative result otherwise; when all
\* I/O closes first the result is the tentative result unchanged; Leak
\* arises in no other way; and a TestFinished whose last attempt is Leak
\* adds 1 to both passed and leaky.
C17_LeakDetection ==
    /\ [][\A id \in UnitIds :
            LET u == Unit(id[1], id[2])
                v == Unit(id[1], id[2])'
            IN  /\ (u.state = "Exiting" /\ v # u) => v.state = "Exited"
                /\ LeakTimeout(id[1], id[2]) =>
                      v.result = (IF u.result = "Pass" THEN "Leak" ELSE u.result)
                /\ IoClosed(id[1], id[2]) => v.result = u.result
                /\ (v.result = "Leak" /\ u.result # "Leak") =>
                      u.state = "Exiting" /\ u.result = "Pass"]_vars
    /\ [][\A t \in Tests :
            (/\ test'[t].finished > test[t].finished
             /\ last_status(test'[t].run_statuses).result = "Leak")
            => /\ stats'.passed = stats.passed + 1
               /\ stats'.leaky = stats.leaky + 1
               /\ stats'.failed = stats.failed]_vars

\* one test kept a handle open past leak_timeout and finished as Leak; the
\* other closed its I/O in time and finished as Pass
C17_Witness ==
    /\ stats.leaky = 1
    /\ stats.passed = NumTests
    /\ \E t \in Tests :
         test[t].finished = 1 /\ last_status(test[t].run_statuses).result = "Leak"
    /\ \E t \in Tests :
         test[t].finished = 1 /\ last_status(test[t].run_statuses).result = "Pass"

\* the events emitted so far for a unit: start, slow, finish
UnitEvents(u) == <<u.started, u.slow, u.finished>>

C21_NoTestsRun ==
    (/\ phase = "Finished"
     /\ \A t \in Tests : filter[t] # Matches
     /\ stats.setup_scripts_passed = stats.setup_scripts_initial_count)
    => /\ stats.initial_run_count = 0
       /\ stats.finished_count = 0
       /\ summarize_final(stats) = FinalSimple("NoTestsRun")

\* every test was filtered out and reported as skipped, the scheduled setup
\* script passed, and the run has finished
C21_Witness ==
    /\ phase = "Finished"
    /\ \A t \in Tests : filter[t] # Matches /\ test[t].skipped = 1
    /\ NumScripts >= 1
    /\ stats.setup_scripts_passed = NumScripts
    /\ summarize_final(stats) = FinalSimple("NoTestsRun")

\* C23: TestAttemptFailedWillRetry does not occur on the final run of a
\* failing test and its run_status is never a success: every attempt it
\* reports has a non-pass result and is followed by a later attempt of the
\* same test, so the statuses of a TestFinished are more than the
\* TestAttemptFailedWillRetry events of the test, also when the run is
\* cancelled during the retry delay.
C23_WillRetryNotFinal ==
    \A t \in Tests :
        /\ \A i \in DOMAIN test[t].run_statuses :
              i <= test[t].will_retry => ~is_success(test[t].run_statuses[i].result)
        /\ test[t].finished > 0 => Len(test[t].run_statuses) > test[t].will_retry

\* the setup scripts that finished with a result that is not a pass
FailedScripts ==
    stats.setup_scripts_failed + stats.setup_scripts_exec_failed
        + stats.setup_scripts_timed_out

\* C24: when a setup script finishes with a non-pass result the failure is
\* recorded in RunStats; with fail_fast the run is cancelled with
\* SetupScriptFailure (a higher reason already set is kept) and no test is
\* ever started; without fail_fast the cancel reason is left alone and the
\* run continues. In both cases summarize_final() is Failed(SetupScript)
\* from then on, whatever the tests do.
C24_SetupScriptFailure ==
    /\ [][\A i \in Scripts :
            (/\ script'[i].finished > script[i].finished
             /\ ~is_success(script[i].result))
            => /\ FailedScripts' = FailedScripts + 1
               /\ cancel' = (IF ~policy.fail_fast \/ cancel > SetupScriptFailure
                             THEN cancel ELSE SetupScriptFailure)]_vars
    /\ [](FailedScripts > 0 =>
            /\ summarize_final(stats) = FinalSetupScript("Failed")
            /\ policy.fail_fast =>
                  /\ cancel >= SetupScriptFailure
                  /\ \A t \in Tests : test[t].started = 0 /\ test[t].state # "Finished")

\* without fail_fast: a setup script timed out, the run went on, a test was
\* started and failed, and the finished run is Failed(SetupScript)
C24_Witness ==
    /\ ~policy.fail_fast
    /\ phase = "Finished"
    /\ cancel = 0
    /\ stats.setup_scripts_timed_out = 1
    /\ stats.failed = 1
    /\ \E t \in Tests : test[t].started = 1 /\ test[t].state = "Finished"
    /\ summarize_final(stats) = FinalSetupScript("Failed")

\* C27: FilterMatch::is_match returns true if the filter doesn't match, as
\* its documentation states: false for Matches and true for Mismatch with
\* every reason, on every FilterMatch value and on the filter_match of every
\* test of the list.
C27_IsMatchAsDocumented ==
    \A f \in FilterMatch \cup {filter[t] : t \in Tests} :
        is_match(f) <=> f.status = "Mismatch"

\* C28: after the first cancellation no new attempt is started (no
\* TestStarted, no TestRetryStarted); a test that is in
\* DelayBeforeNextAttempt when the run is cancelled leaves the delay only by
\* TestFinished, whose statuses are its completed attempts, the last
\* completed attempt being the final status.
C28_NoAttemptAfterCancel ==
    /\ [][cancel # 0 =>
            \A t \in Tests : /\ test'[t].started = test[t].started
                             /\ test'[t].retry_started = test[t].retry_started]_vars
    /\ [][\A t \in Tests :
            (/\ cancel # 0
             /\ test[t].state = "DelayBeforeNextAttempt"
             /\ test'[t] # test[t])
            => /\ test'[t].state = "Finished"
               /\ test'[t].finished = test[t].finished + 1
               /\ test'[t].run_statuses = test[t].run_statuses
               /\ stats'.finished_count = stats.finished_count + 1
               /\ LET last == last_status(test[t].run_statuses).result
                      counter == CASE last = "Fail"     -> "failed"
                                   [] last = "ExecFail" -> "exec_failed"
                                   [] last = "Timeout"  -> "timed_out"
                  IN  stats'[counter] = stats[counter] + 1]_vars
    /\ [](\A t \in Tests :
            (cancel # 0 /\ test[t].state = "DelayBeforeNextAttempt")
            => ENABLED DelayCancelled(t))

\* a test failed its first attempt, the run was cancelled during the retry
\* delay, and the test finished with that one attempt counted as failed
C28_Witness ==
    \E t \in Tests :
        /\ cancel # 0
        /\ test[t].state = "Finished"
        /\ test[t].will_retry = 1
        /\ test[t].retry_started = 0
        /\ Len(test[t].run_statuses) = 1
        /\ test[t].run_statuses[1].result = "Fail"
        /\ stats.failed = 1

\* the counters on_setup_script_finished writes, and those on_test_finished writes
SetupScriptCounters ==
    {"setup_scripts_finished_count", "setup_scripts_passed", "setup_scripts_failed",
     "setup_scripts_exec_failed", "setup_scripts_timed_out"}
TestCounters ==
    {"finished_count", "passed", "passed_slow", "flaky", "failed", "failed_slow",
     "timed_out", "leaky", "exec_failed"}

C29_InfoRequest ==
    /\ [](/\ info.pc = "collecting" => info.started = info.finished + 1
          /\ info.pc = "idle" => info.started = info.finished)
    /\ [][info'.started > info.started =>
            /\ info.pc = "idle"
            /\ info'.total = Cardinality(RunningUnits)
            /\ info'.indexes = <<>>]_vars
    /\ [][info'.indexes # info.indexes /\ info'.started = info.started =>
            /\ info.pc = "collecting"
            /\ info'.pc = "collecting"
            /\ info'.indexes = Append(info.indexes, Len(info.indexes))]_vars
    /\ [](\A k \in DOMAIN info.indexes :
            /\ info.indexes[k] = k - 1
            /\ info.indexes[k] < info.total)
    /\ [][info'.finished > info.finished =>
            /\ info.pc = "collecting"
            /\ info'.indexes = info.indexes
            /\ info'.total = info.total]_vars
    /\ [](info.pc = "idle" /\ info.finished > 0 =>
            Len(info.indexes) + info.missing = info.total)
    /\ [][info' # info => UNCHANGED <<stats, test, script>>]_vars

\* two tests were running at the snapshot; one answered with index 0, the
\* other finished before it answered and is reported as missing
C29_Witness ==
    /\ info.pc = "idle"
    /\ info.finished = 1
    /\ info.total = 2
    /\ info.indexes = <<0>>
    /\ info.missing = 1

\* the tests selected by the filter that were never started
NeverStarted == {t \in Tests : filter[t] = Matches /\ test[t].started = 0}

SetupResultCounter(result) ==
    CASE result \in {"Pass", "Leak"} -> "setup_scripts_passed"
      [] result = "Fail"             -> "setup_scripts_failed"
      [] result = "ExecFail"         -> "setup_scripts_exec_failed"
      [] result = "Timeout"          -> "setup_scripts_timed_out"

\* C31: each setup script is started and finished at most once (it is never
\* retried); SetupScriptFinished adds 1 to setup_scripts_finished_count and
\* 1 to exactly one result counter (Pass and Leak: setup_scripts_passed;
\* Fail: setup_scripts_failed; ExecFail: setup_scripts_exec_failed;
\* Timeout: setup_scripts_timed_out) and leaves the other result counters
\* alone, so that in every reachable state the four result counters add
\* up to setup_scripts_finished_count <= setup_scripts_initial_count.
C31_SetupScriptCounters ==
    /\ [](\A i \in Scripts : script[i].started <= 1 /\ script[i].finished <= 1)
    /\ [][\A i \in Scripts :
            /\ script'[i].started >= script[i].started
            /\ script'[i].finished >= script[i].finished
            /\ script[i].state = "Finished" => script'[i] = script[i]]_vars
    /\ [][\A i \in Scripts :
            script'[i].finished > script[i].finished =>
                LET counter == SetupResultCounter(script[i].result) IN
                /\ stats'.setup_scripts_finished_count
                        = stats.setup_scripts_finished_count + 1
                /\ stats'[counter] = stats[counter] + 1
                /\ \A f \in SetupScriptCounters
                            \ {counter, "setup_scripts_finished_count"} :
                        stats'[f] = stats[f]]_vars
    /\ [](/\ stats.setup_scripts_passed + stats.setup_scripts_failed
                + stats.setup_scripts_exec_failed + stats.setup_scripts_timed_out
                    = stats.setup_scripts_finished_count
          /\ stats.setup_scripts_finished_count <= stats.setup_scripts_initial_count
          /\ stats.setup_scripts_finished_count
                    = Cardinality({i \in Scripts : script[i].finished = 1}))

\* the setup script finished once with a passing result and is counted in
\* setup_scripts_passed; every scheduled script has finished and a test
\* has been started after it
C31_Witness ==
    /\ \E i \in Scripts : script[i].state = "Finished" /\ script[i].finished = 1
    /\ stats.setup_scripts_passed = 1
    /\ stats.setup_scripts_finished_count = 1
    /\ stats.setup_scripts_finished_count = stats.setup_scripts_initial_count
    /\ \E t \in Tests : test[t].started > 0

---------------------------------------------------------------------------
(* SpecEnv: parse_env_file applied to env files of bounded size, written   *)
(* by hand (any text) or by a writer that emits one k=v line per entry     *)

\* most tokens in a hand-written env file
MaxTokens == 4
\* most tokens in the keys and values of a map that is written out
MaxMapTokens == 2
\* most entries of a map that is written out
MaxEntries == 2

\* a byte sequence that is not UTF-8
InvalidUtf8 == "<0xFF>"

\* the reserved prefix, and a key one character short of it
NEXTEST == <<"N", "E", "X", "T", "E", "S", "T">>
NEXTES  == SubSeq(NEXTEST, 1, Len(NEXTEST) - 1)

\* the pieces env files are built of here; strings are sequences of characters
StringTokens == {<<"a">>, <<"=">>, <<"\n">>, <<"\r">>, NEXTEST, NEXTES}
FileTokens   == StringTokens \cup {<<InvalidUtf8>>}

\* the texts made of exactly n tokens
RECURSIVE TextsOf(_, _)
TextsOf(tokens, n) ==
    IF n = 0 THEN {<<>>}
    ELSE {s \o t : s \in TextsOf(tokens, n - 1), t \in tokens}

Range(s) == {s[i] : i \in DOMAIN s}

\* BufReader::lines(): the text is cut after every "\n"; the "\n" and a "\r"
\* right before it are dropped; text after the last "\n" is a line of its own
RECURSIVE lines(_)
lines(text) ==
    IF text = <<>> THEN <<>>
    ELSE IF "\n" \notin Range(text) THEN <<text>>
    ELSE LET n    == CHOOSE i \in DOMAIN text :
                        text[i] = "\n" /\ \A j \in 1..(i - 1) : text[j] # "\n"
             raw  == SubSeq(text, 1, n - 1)
             line == IF raw # <<>> /\ raw[Len(raw)] = "\r"
                     THEN SubSeq(raw, 1, Len(raw) - 1)
                     ELSE raw
         IN  <<line>> \o lines(SubSeq(text, n + 1, Len(text)))

\* str::split_once at the last '=' instead of the first (rsplit_once)
split_once_Last(line) ==
    IF "=" \notin Range(line) THEN [found |-> FALSE, key |-> <<>>, value |-> <<>>]
    ELSE LET n == CHOOSE i \in DOMAIN line :
                     line[i] = "=" /\ \A j \in (i + 1)..Len(line) : line[j] # "="
         IN  [found |-> TRUE, key |-> SubSeq(line, 1, n - 1),
              value |-> SubSeq(line, n + 1, Len(line))]

\* str::split_once('='): the parts before and after the first '='
split_once(line) ==
    IF "=" \notin Range(line) THEN [found |-> FALSE, key |-> <<>>, value |-> <<>>]
    ELSE LET n == CHOOSE i \in DOMAIN line :
                     line[i] = "=" /\ \A j \in 1..(i - 1) : line[j] # "="
         IN  [found |-> TRUE, key |-> SubSeq(line, 1, n - 1),
              value |-> SubSeq(line, n + 1, Len(line))]

\* a comparison with the whole key instead of its beginning
starts_with_Whole(s, prefix) == s = prefix

\* str::starts_with
starts_with(s, prefix) ==
    Len(s) >= Len(prefix) /\ SubSeq(s, 1, Len(prefix)) = prefix

\* BTreeMap::insert: a later value replaces an earlier one for the same key
insert(env_map, key, value) ==
    {e \in env_map : e.key # key} \cup {[key |-> key, value |-> value]}

\* Result<SetupScriptEnvMap, SetupScriptOutputError>
Ok(env_map)    == [ok |-> TRUE, env_map |-> env_map]
Err(error, at) == [ok |-> FALSE, error |-> error, at |-> at]

\* the loop of parse_env_file over the lines still to read
RECURSIVE parse_lines(_, _)
parse_lines(rest, env_map) ==
    IF rest = <<>> THEN Ok(env_map)
    ELSE LET line == Head(rest)
             kv   == split_once(line)
         IN  IF InvalidUtf8 \in Range(line) THEN Err("EnvFileRead", <<>>)
             ELSE IF ~kv.found THEN Err("EnvFileParse", line)
             ELSE IF starts_with(kv.key, NEXTEST) THEN Err("EnvFileReservedKey", kv.key)
             ELSE parse_lines(Tail(rest), insert(env_map, kv.key, kv.value))

parse_env_file(file) ==
    IF ~file.exists THEN Err("EnvFileOpen", <<>>)
    ELSE parse_lines(lines(file.text), {})

\* the env files written by hand: no file at all, or any text of at most
\* MaxTokens tokens
EnvFiles ==
    {[exists |-> FALSE, text |-> <<>>]} \cup
    {[exists |-> TRUE, text |-> t] : t \in UNION {TextsOf(FileTokens, n) : n \in 0..MaxTokens}}

\* the entries whose key and value have n tokens together
EnvEntries(n) ==
    UNION {{[key |-> k, value |-> v] :
                k \in TextsOf(StringTokens, i), v \in TextsOf(StringTokens, n - i)} :
           i \in 0..n}

\* the maps of at most e entries that have exactly n tokens
RECURSIVE EnvMapsOf(_, _)
EnvMapsOf(n, e) ==
    IF e = 0 THEN (IF n = 0 THEN {{}} ELSE {})
    ELSE EnvMapsOf(n, e - 1) \cup
         UNION {UNION {{m \cup {x} : x \in {y \in EnvEntries(i) :
                                             \A z \in m : z.key # y.key}} :
                       m \in EnvMapsOf(n - i, e - 1)} :
                i \in 0..n}

\* the maps a setup script may want to export
EnvMaps == UNION {EnvMapsOf(n, MaxEntries) : n \in 0..MaxMapTokens}

\* the entries of a map in some order
Orders(m) ==
    {order \in [1..Cardinality(m) -> m] :
        \A i, j \in 1..Cardinality(m) : i # j => order[i] # order[j]}

\* the file a writer produces: one k=v line per entry, in the given order,
\* the last line with or without its line feed
RECURSIVE write_env_file(_, _, _)
write_env_file(order, n, final_newline) ==
    IF n > Len(order) THEN <<>>
    ELSE order[n].key \o <<"=">> \o order[n].value
         \o (IF n < Len(order) \/ final_newline THEN <<"\n">> ELSE <<>>)
         \o write_env_file(order, n + 1, final_newline)

NoFile   == [exists |-> FALSE, text |-> <<>>]
NoResult == [ok |-> FALSE, error |-> "None", at |-> <<>>]

EnvInit ==
    /\ \/ \E file \in EnvFiles :
            env = [pc |-> "written", from_map |-> FALSE, map |-> {},
                   file |-> file, out |-> NoResult]
       \/ \E m \in EnvMaps :
            env = [pc |-> "map", from_map |-> TRUE, map |-> m,
                   file |-> NoFile, out |-> NoResult]
    /\ stats = DefaultRunStats
    /\ FnIdle
    /\ CallIdle
    /\ RunIdle

\* the setup script writes its map to the env file
EnvWrite ==
    /\ env.pc = "map"
    /\ \E order \in Orders(env.map), final_newline \in BOOLEAN :
         env' = [env EXCEPT !.pc = "written",
                            !.file = [exists |-> TRUE,
                                      text |-> write_env_file(order, 1, final_newline)]]
    /\ UNCHANGED <<stats, fn_vars, call_vars, run_vars, ctl_vars>>

\* the runner parses the env file
EnvParse ==
    /\ env.pc = "written"
    /\ env' = [env EXCEPT !.pc = "parsed", !.out = parse_env_file(env.file)]
    /\ UNCHANGED <<stats, fn_vars, call_vars, run_vars, ctl_vars>>

EnvNext == EnvWrite \/ EnvParse

SpecEnv == EnvInit /\ [][EnvNext]_vars

---------------------------------------------------------------------------
(* Claims about parse_env_file *)

\* s begins with p
BeginsWith(s, p) == Len(s) >= Len(p) /\ \A i \in 1..Len(p) : s[i] = p[i]

\* an env-file line parse_env_file accepts: it has a '=', and what precedes
\* its first '=' does not begin with NEXTEST
Acceptable(line) == "=" \in Range(line) /\ ~BeginsWith(line, NEXTEST)

\* a line parse_env_file can read
Readable(line) == InvalidUtf8 \notin Range(line)

\* C19: parse_env_file splits every line at its first '=' into key and
\* value (the value may contain '='); it returns an error and no map if the
\* file cannot be opened or read, if any line has no '=' (a blank line
\* included) or if any key begins with NEXTEST, the error being that of the
\* first such line; only when every line is acceptable does it return the
\* map, which holds for every line its key with the value of the last line
\* that has this key.
C19_ParseEnvFile ==
    env.pc = "parsed" =>
        LET ls  == lines(env.file.text)
            bad == {i \in DOMAIN ls : ~Readable(ls[i]) \/ ~Acceptable(ls[i])}
        IN  /\ env.out.ok <=> (env.file.exists /\ bad = {})
            /\ ~env.out.ok =>
                 /\ "env_map" \notin DOMAIN env.out
                 /\ ~env.file.exists => env.out.error = "EnvFileOpen"
                 /\ env.file.exists =>
                      LET line == ls[CHOOSE i \in bad : \A j \in bad : i <= j]
                      IN  env.out.error =
                            (IF ~Readable(line) THEN "EnvFileRead"
                             ELSE IF "=" \notin Range(line) THEN "EnvFileParse"
                             ELSE "EnvFileReservedKey")
            /\ env.out.ok =>
                 /\ \A e \in env.out.env_map :
                      /\ "=" \notin Range(e.key)
                      /\ \E i \in DOMAIN ls :
                           /\ ls[i] = e.key \o <<"=">> \o e.value
                           /\ \A j \in DOMAIN ls :
                                j > i => ~BeginsWith(ls[j], e.key \o <<"=">>)
                 /\ \A i \in DOMAIN ls :
                      \E e \in env.out.env_map : BeginsWith(ls[i], e.key \o <<"=">>)

\* a file whose first line is acceptable and whose second line is blank was
\* rejected for the blank line
C19_Witness ==
    /\ env.pc = "parsed"
    /\ Len(lines(env.file.text)) = 2
    /\ Acceptable(lines(env.file.text)[1])
    /\ lines(env.file.text)[2] = <<>>
    /\ env.out = Err("EnvFileParse", <<>>)

\* the keys of m do not begin with the reserved prefix and contain no '='
PlainKeys(m) == \A e \in m : ~BeginsWith(e.key, NEXTEST) /\ "=" \notin Range(e.key)

\* no key and no value of m contains a line feed, and no value ends with a
\* carriage return
OneLineEach(m) ==
    \A e \in m :
        /\ "\n" \notin Range(e.key) \cup Range(e.value)
        /\ e.value = <<>> \/ e.value[Len(e.value)] # "\r"

\* C20 as stated: for every map whose keys do not begin with the reserved
\* prefix and contain no '=', writing one k=v line per entry and parsing
\* the result yields exactly the original map.
C20_Original ==
    (env.pc = "parsed" /\ env.from_map /\ PlainKeys(env.map)) =>
        env.out = Ok(env.map)

\* C20, amended: for every map whose keys do not begin with the reserved
\* prefix and contain no '=', whose keys and values contain no line feed
\* and whose values do not end with a carriage return, writing one k=v
\* line per entry and parsing the result yields exactly the original map.
C20_RoundTrip ==
    (env.pc = "parsed" /\ env.from_map /\ PlainKeys(env.map) /\ OneLineEach(env.map)) =>
        env.out = Ok(env.map)

\* a map of two entries, one with a '=' in its value, came back unchanged
C20_Witness ==
    /\ env.pc = "parsed"
    /\ env.from_map
    /\ PlainKeys(env.map) /\ OneLineEach(env.map)
    /\ Cardinality(env.map) = 2
    /\ \E e \in env.map : "=" \in Range(e.value)
    /\ env.out = Ok(env.map)

===========================================================================
